---- MODULE Spec2Model ----
(***************************************************************************)
(* TikTokDownloader: the resolution-and-retrieval pipeline of server.mjs   *)
(* (POST /api/download batch service) and of index.mjs (direct            *)
(* invocation), with the pure helpers both use.                            *)
(*                                                                         *)
(* Text is modelled as sequences of one-character strings, so that         *)
(* includes(), trim(), match(), replace() and substring() are computed     *)
(* character by character as the JavaScript does.                          *)
(***************************************************************************)
EXTENDS Integers, Sequences, FiniteSets, TLC

(* ---------------------------------------------------------------------- *)
(* Bounds of the model                                                     *)
(* ---------------------------------------------------------------------- *)
\* longest batch of the service model
MaxUrls == 2
\* how far the longest generated title exceeds the truncation length
TitleOver == 2

(* ---------------------------------------------------------------------- *)
(* Program constants                                                       *)
(* ---------------------------------------------------------------------- *)
\* substring(0, 50)
TitleLimit == 50
\* const endpoints = [tikwm.com, www.tikwm.com]
NumEndpoints == 2
\* const possibleVideoUrls = [v16-webapp, v19-webapp]
NumCandidates == 2

(* ---------------------------------------------------------------------- *)
(* Character classes and literals                                          *)
(* ---------------------------------------------------------------------- *)
LowerCase == <<"a","b","c","d","e","f","g","h","i","j","k","l","m",
               "n","o","p","q","r","s","t","u","v","w","x","y","z">>
UpperCase == <<"A","B","C","D","E","F","G","H","I","J","K","L","M",
               "N","O","P","Q","R","S","T","U","V","W","X","Y","Z">>
Digit == {"0","1","2","3","4","5","6","7","8","9"}
WhiteSpace == {" "}
Range(s) == {s[i] : i \in DOMAIN s}

HostMarker == <<"t","i","k","t","o","k",".","c","o","m">>
VideoSeg == <<"v","i","d","e","o","/">>
Placeholder == <<"t","i","k","t","o","k","_","v","i","d","e","o">>
Mp4 == <<".","m","p","4">>
KwPrivate == <<"p","r","i","v","a","t","e">>
KwFriends == <<"f","r","i","e","n","d","s">>
KwNotFound == <<"n","o","t"," ","f","o","u","n","d">>
KwDeleted == <<"d","e","l","e","t","e","d">>

(* ---------------------------------------------------------------------- *)
(* String primitives of the JavaScript runtime                             *)
(* ---------------------------------------------------------------------- *)
\* String.prototype.includes
Includes(s, sub) ==
  \E i \in 0..(Len(s) - Len(sub)) : SubSeq(s, i + 1, i + Len(sub)) = sub

\* String.prototype.trim (the set of kept positions is computed once)
Trim(s) ==
  CHOOSE t \in
    {IF keep = {} THEN <<>>
     ELSE SubSeq(s, CHOOSE i \in keep : \A j \in keep : i <= j,
                    CHOOSE i \in keep : \A j \in keep : i >= j) :
       keep \in {{i \in DOMAIN s : s[i] \notin WhiteSpace}}} : TRUE

\* String.prototype.substring(0, n)
Substring0(s, n) == SubSeq(s, 1, IF Len(s) < n THEN Len(s) ELSE n)

\* the positions where "video/" followed by a digit starts in url
MatchStarts(url) ==
  {i \in 1..Len(url) :
     /\ i + Len(VideoSeg) <= Len(url)
     /\ SubSeq(url, i, i + Len(VideoSeg) - 1) = VideoSeg
     /\ url[i + Len(VideoSeg)] \in Digit}

\* (\d+) at position d: the longest run of digits that starts there
DigitsFrom(url, d) ==
  SubSeq(url, d, CHOOSE e \in d..Len(url) :
                   /\ \A j \in d..e : url[j] \in Digit
                   /\ (e = Len(url) \/ url[e + 1] \notin Digit))

\* url.match(/video\/(\d+)/)?.[1] : the digits of the leftmost match, <<>> when
\* there is no match (starts and d are each computed once)
MatchVideoId(url) ==
  CHOOSE m \in
    {IF starts = {} THEN <<>>
     ELSE CHOOSE digits \in
            {DigitsFrom(url, d) :
               d \in {(CHOOSE k \in starts : \A j \in starts : k <= j)
                        + Len(VideoSeg)}} : TRUE :
       starts \in {MatchStarts(url)}} : TRUE

(* ---------------------------------------------------------------------- *)
(* Descriptor derivation (server.mjs 92-95, index.mjs 153-156)             *)
(* ---------------------------------------------------------------------- *)
\* the characters the regular expression [^a-zA-Z0-9\-_] lets through
NameChar == Range(LowerCase) \cup Range(UpperCase) \cup Digit \cup {"-", "_"}

\* url.match(/video\/(\d+)/)?.[1] || 'tiktok_video'
videoId(url) ==
  IF MatchVideoId(url) = <<>> THEN Placeholder ELSE MatchVideoId(url)

sanitizedTitleNoTruncate(title) ==
  [i \in 1..Len(title) |-> IF title[i] \in NameChar THEN title[i] ELSE "_"]

\* title.replace(/[^a-zA-Z0-9\-_]/g, '_').substring(0, 50)
sanitizedTitle(title) ==
  Substring0([i \in 1..Len(title) |->
                IF title[i] \in NameChar THEN title[i] ELSE "_"],
             TitleLimit)

\* `${sanitizedTitle}_${videoId}.mp4`
baseName(title, url) == sanitizedTitle(title) \o <<"_">> \o videoId(url) \o Mp4

(* ---------------------------------------------------------------------- *)
(* Provider message classification (server.mjs 50-57)                      *)
(* ---------------------------------------------------------------------- *)
\* the value tryTikWmAPI returns for a truthy data.msg; "UNKNOWN" stands for
\* falling through to the next endpoint
classifyMsg(msg) ==
  IF Includes(msg, KwPrivate) \/ Includes(msg, KwFriends) THEN "PRIVATE"
  ELSE IF Includes(msg, KwNotFound) \/ Includes(msg, KwDeleted)
       THEN "NOT_FOUND"
       ELSE "UNKNOWN"

(* ---------------------------------------------------------------------- *)
(* Values exchanged with the environment                                   *)
(* ---------------------------------------------------------------------- *)
\* a JSON value that is a string, and one that is not (a number)
Str(s) == [t |-> "string", v |-> s]
NonStr == [t |-> "number", v |-> <<>>]
Absent == [t |-> "undefined", v |-> <<>>]

UrlWithId == <<" ","t","i","k","t","o","k",".","c","o","m","/","v","i","d","e","o","/","1","2","3"," ">>
UrlNoId == <<"t","i","k","t","o","k",".","c","o","m","/","@","u">>
UrlNotTikTok == <<"n","o","t","-","a","-","u","r","l">>
UrlBlank == <<" "," ">>
UrlForeignId == <<"x",".","o","r","g","/","v","i","d","e","o","/","7","a","8">>

MPrivate == <<"i","s"," ","p","r","i","v","a","t","e">>
MPrivateCap == <<"I","s"," ","P","r","i","v","a","t","e">>
MFriends == <<"f","r","i","e","n","d","s"," ","o","n","l","y">>
MNotFound == <<"n","o","t"," ","f","o","u","n","d">>
MNotFoundCap == <<"N","O","T"," ","F","O","U","N","D">>
MDeleted == <<"d","e","l","e","t","e","d">>
MBusy == <<"b","u","s","y">>
MBoth == <<"p","r","i","v","a","t","e",","," ","d","e","l","e","t","e","d">>

THello == <<"H","e","l","l","o","!"," ","W","o","r","l","d","?","?">>
TShort == <<"H","i","!">>

\* Response.ok
Ok(status) == status \in 200..299

\* Response.statusText
StatusText(status) ==
  CASE status = 200 -> "OK"
    [] status = 404 -> "Not Found"
    [] status = 500 -> "Internal Server Error"
    [] status = 503 -> "Service Unavailable"
    [] OTHER -> ""

\* how a fetch() settles: a response with a status, or a rejection
\* (network error, AbortSignal.timeout)
Settled(status) == [kind |-> "response", status |-> status]
Rejected == [kind |-> "throw", status |-> 0]
ProbeOutcomes == {Settled(200), Settled(503), Rejected}
EndpointOutcomes == {Settled(200), Settled(500), Rejected}
RetrievalOutcomes == {Settled(200), Settled(404), Settled(500), Rejected}

\* what res.json() yields: a rejection (malformed body), null, or an object
\* with data.play, data.title and msg
Payload(play, title, msg) ==
  [kind |-> "object", play |-> play, title |-> title, msg |-> msg]
NoPayload == [kind |-> "none", play |-> "", title |-> Absent, msg |-> <<>>]
JsonThrows == [kind |-> "throw", play |-> "", title |-> Absent, msg |-> <<>>]
JsonNull == [kind |-> "null", play |-> "", title |-> Absent, msg |-> <<>>]
Messages == {MPrivate, MPrivateCap, MNotFound, MDeleted, MBusy, MBoth}
JsonOutcomes ==
  {JsonThrows, JsonNull,
   Payload("", Absent, <<>>),
   Payload("https://cdn/a", Absent, <<>>),
   Payload("https://cdn/a", Str(<<>>), <<>>),
   Payload("https://cdn/a", Str(TShort), <<>>),
   Payload("https://cdn/b", Str(THello), MPrivate),
   Payload("https://cdn/b", NonStr, <<>>)}
  \cup {Payload("", Str(TShort), m) : m \in Messages}

(* ---------------------------------------------------------------------- *)
(* State                                                                   *)
(* ---------------------------------------------------------------------- *)
VARIABLES
  entry,      \* "service" (server.mjs), "direct" (index.mjs), "fn" (helpers)
  req,        \* the HTTP request, or the command line of a direct invocation
  pc,         \* the await the invocation is suspended at
  cur,        \* index of the batch item in the pipeline
  results,    \* const results = []
  ret,        \* the settled value of downloadTikTokVideo, not yet pushed
  loc,        \* locals of the pipeline: endpoint index, videoData, fileName
  log,        \* every outbound request issued, in order
  resps,      \* the responses received for the current item, in order
  files,      \* write streams opened with fs.createWriteStream
  responses,  \* what was written to the HTTP response / the exit of the CLI
  fnIn,       \* argument of a helper under test
  fnOut,      \* its result
  dir,        \* the download directory as the handler found or left it
  other       \* the closure of a second invocation suspended at an await

vars == <<entry, req, pc, cur, results, ret, loc, log, resps, files,
          responses, fnIn, fnOut, dir, other>>

\* no second invocation
NoContext == <<>>

NoRet == [success |-> FALSE, error |-> <<>>, fileName |-> <<>>,
          fullPath |-> <<>>, title |-> <<>>]
NoLoc == [ep |-> 0, videoUrl |-> "", title |-> Absent, fileName |-> <<>>]

\* an entry of the request log
Request(item, kind, n) == [item |-> item, kind |-> kind, n |-> n]
\* an entry of the response history of one item
Resp(stage, n, kind, status, data) ==
  [stage |-> stage, n |-> n, kind |-> kind, status |-> status, data |-> data]

\* the catch block of downloadTikTokVideo: { success: false, error: error.message }
Failure(message) ==
  [success |-> FALSE, error |-> message, fileName |-> <<>>,
   fullPath |-> <<>>, title |-> <<>>]

ErrNetwork == <<"Network connectivity issues detected">>
ErrPrivate == <<"This video is private or friends-only and cannot be downloaded">>
ErrNotFound == <<"Video not found. It may have been deleted or the URL is incorrect">>
ErrAllFailed == <<"Failed to fetch video data from all APIs">>
ErrInvalid == <<"Invalid TikTok URL">>
ErrFetch == <<"fetch failed">>
ErrStream == <<"aborted">>
ErrTitleType == <<"title.replace is not a function">>
\* `Video download failed: ${videoRes.status} ${videoRes.statusText}`
ErrDownload(status) ==
  <<"Video download failed: ", ToString(status), " ", StatusText(status)>>

(* ---------------------------------------------------------------------- *)
(* server.mjs: requests                                                    *)
(* ---------------------------------------------------------------------- *)
RECURSIVE SeqsUpTo(_, _)
\* all sequences over S of length at most n
SeqsUpTo(S, n) ==
  IF n = 0 THEN {<<>>}
  ELSE LET shorter == SeqsUpTo(S, n - 1)
       IN shorter \cup {Append(q, x) : q \in {r \in shorter : Len(r) = n - 1}, x \in S}

ArrayOf(q) == [t |-> "array", v |-> q]
UrlElements == {Str(UrlWithId), Str(UrlNotTikTok), Str(UrlBlank)}
\* the values of data.urls: missing, not an array, arrays of strings, and
\* arrays whose last element is not a string
UrlsValues ==
  {Absent, NonStr}
  \cup {ArrayOf(q) : q \in SeqsUpTo(UrlElements, MaxUrls)}
  \cup {ArrayOf(Append(q, NonStr)) : q \in SeqsUpTo(UrlElements, MaxUrls - 1)}

Body(kind, urls, downloadPath) ==
  [kind |-> kind, urls |-> urls, downloadPath |-> downloadPath]
NoBody == Body("none", Absent, "")
Bodies ==
  {Body("malformed", Absent, ""), Body("null", Absent, "")}
  \cup {Body("object", u, "") : u \in UrlsValues}
  \cup {Body("object", ArrayOf(<<Str(UrlWithId)>>), "/dl")}

HttpRequest(method, path, body) ==
  [method |-> method, path |-> path, body |-> body]
ServiceRequests ==
  {HttpRequest("OPTIONS", "/api/download", NoBody),
   HttpRequest("GET", "/", NoBody),
   HttpRequest("GET", "/index.html", NoBody),
   HttpRequest("GET", "/api/download", NoBody),
   HttpRequest("POST", "/favicon.ico", NoBody)}
  \cup {HttpRequest("POST", "/api/download", b) : b \in Bodies}

ReplyAlways200(status, kind, error, list) ==
  [status |-> 200, kind |-> kind, error |-> error, results |-> list]

\* res.writeHead(status, ...); res.end(body)
Reply(status, kind, error, list) ==
  [status |-> status, kind |-> kind, error |-> error, results |-> list]

(* ---------------------------------------------------------------------- *)
(* server.mjs: the batch loop (187-206)                                    *)
(* ---------------------------------------------------------------------- *)
IsTikTokUrlNoMarkerCheck(url) == Trim(url) # <<>>

\* if (url.trim() && url.includes('tiktok.com'))
IsTikTokUrl(url) == Trim(url) # <<>> /\ Includes(url, HostMarker)

ResultEntryUntrimmed(url, outcome) ==
  [url |-> url, success |-> outcome.success, error |-> outcome.error,
   fileName |-> outcome.fileName, fullPath |-> outcome.fullPath,
   title |-> outcome.title]

\* { url: url.trim(), ...result }
ResultEntry(url, outcome) ==
  [url |-> Trim(url), success |-> outcome.success, error |-> outcome.error,
   fileName |-> outcome.fileName, fullPath |-> outcome.fullPath,
   title |-> outcome.title]

\* { url: url.trim(), success: false, error: 'Invalid TikTok URL' }
InvalidEntry(url) == ResultEntry(url, Failure(ErrInvalid))

RECURSIVE RunLoopAborts(_, _, _)
RunLoopAborts(urls, i, res) ==
  IF res # <<>> /\ ~res[Len(res)].success
  THEN [pc |-> "responded", cur |-> i, results |-> res,
        reply |-> Reply(500, "error", <<"Server error: ">> \o res[Len(res)].error, <<>>)]
  ELSE IF i > Len(urls)
  THEN [pc |-> "responded", cur |-> i, results |-> res,
        reply |-> Reply(200, "results", <<>>, res)]
  ELSE IF urls[i].t # "string"
  THEN [pc |-> "responded", cur |-> i, results |-> res,
        reply |-> Reply(500, "error",
                        <<"Server error: ", "url.trim is not a function">>, <<>>)]
  ELSE IF IsTikTokUrl(urls[i].v)
  THEN [pc |-> "probe", cur |-> i, results |-> res,
        reply |-> Reply(0, "none", <<>>, <<>>)]
  ELSE RunLoopAborts(urls, i + 1, Append(res, InvalidEntry(urls[i].v)))

RECURSIVE RunLoop(_, _, _)
\* for (const url of urls) from element i on, up to the next await: the call
\* of downloadTikTokVideo (pc "probe"), the 200 reply after the last element,
\* or the TypeError of url.trim() on a non-string, caught at line 208
RunLoop(urls, i, res) ==
  IF i > Len(urls)
  THEN [pc |-> "responded", cur |-> i, results |-> res,
        reply |-> Reply(200, "results", <<>>, res)]
  ELSE IF urls[i].t # "string"
  THEN [pc |-> "responded", cur |-> i, results |-> res,
        reply |-> Reply(500, "error",
                        <<"Server error: ", "url.trim is not a function">>, <<>>)]
  ELSE IF IsTikTokUrl(urls[i].v)
  THEN [pc |-> "probe", cur |-> i, results |-> res,
        reply |-> Reply(0, "none", <<>>, <<>>)]
  ELSE RunLoop(urls, i + 1, Append(res, InvalidEntry(urls[i].v)))

ContinueAllAtOnce(i, res) ==
  LET r == RunLoop(req.body.urls.v, i, res)
      rest == SelectSeq([k \in 1..Len(req.body.urls.v) |-> k],
                        LAMBDA k : /\ k >= r.cur
                                   /\ req.body.urls.v[k].t = "string"
                                   /\ IsTikTokUrl(req.body.urls.v[k].v))
  IN /\ results' = r.results
     /\ cur' = r.cur
     /\ pc' = r.pc
     /\ log' = IF r.pc = "probe"
               THEN log \o [k \in 1..Len(rest) |-> Request(rest[k], "probe", 1)]
               ELSE log
     /\ resps' = <<>>
     /\ responses' = IF r.pc = "responded"
                     THEN Append(responses, r.reply) ELSE responses
     /\ ret' = NoRet
     /\ loc' = NoLoc

\* the handler runs the loop from element i with the results so far
Continue(i, res) ==
  \E r \in {RunLoop(req.body.urls.v, i, res)} :
     /\ results' = r.results
     /\ cur' = r.cur
     /\ pc' = r.pc
     /\ log' = IF r.pc = "probe"
               THEN Append(log, Request(r.cur, "probe", 1)) ELSE log
     /\ resps' = <<>>
     /\ responses' = IF r.pc = "responded"
                     THEN Append(responses, r.reply) ELSE responses
     /\ ret' = NoRet
     /\ loc' = NoLoc

\* downloadPath || path.join(__dirname, 'downloads')
targetPath == IF req.body.downloadPath = "" THEN "./downloads"
              ELSE req.body.downloadPath

(* ---------------------------------------------------------------------- *)
(* server.mjs: the request handler (127-220)                               *)
(* ---------------------------------------------------------------------- *)
HandlerFallsThrough ==
  /\ entry = "service" /\ pc = "accepted"
  /\ IF req.method = "OPTIONS"
     THEN /\ responses' = Append(responses, Reply(200, "empty", <<>>, <<>>))
          /\ pc' = "responded"
     ELSE IF req.path \in {"/", "/index.html"}
     THEN /\ \E readable \in BOOLEAN :
               responses' = Append(responses,
                 IF readable THEN Reply(200, "html", <<>>, <<>>)
                 ELSE Reply(404, "text", <<"HTML file not found">>, <<>>))
          /\ pc' = "responded"
     ELSE IF req.path = "/api/download" /\ req.method = "POST"
     THEN /\ responses' = Append(responses, Reply(404, "text", <<"Not Found">>, <<>>))
          /\ pc' = "body"
     ELSE /\ responses' = Append(responses, Reply(404, "text", <<"Not Found">>, <<>>))
          /\ pc' = "responded"
  /\ UNCHANGED <<entry, req, dir, other, cur, results, ret, loc, log, resps, files,
                 fnIn, fnOut>>

\* http.createServer(async (req, res) => ...) up to its return
Handler ==
  /\ entry = "service" /\ pc = "accepted"
  /\ IF req.method = "OPTIONS"
     THEN /\ responses' = Append(responses, Reply(200, "empty", <<>>, <<>>))
          /\ pc' = "responded"
     ELSE IF req.path \in {"/", "/index.html"}
     THEN /\ \E readable \in BOOLEAN :
               responses' = Append(responses,
                 IF readable THEN Reply(200, "html", <<>>, <<>>)
                 ELSE Reply(404, "text", <<"HTML file not found">>, <<>>))
          /\ pc' = "responded"
     ELSE IF req.path = "/api/download" /\ req.method = "POST"
     THEN /\ responses' = responses
          /\ pc' = "body"
     ELSE /\ responses' = Append(responses, Reply(404, "text", <<"Not Found">>, <<>>))
          /\ pc' = "responded"
  /\ UNCHANGED <<entry, req, dir, other, cur, results, ret, loc, log, resps, files,
                 fnIn, fnOut>>

\* req.on('end', async () => ...) up to its first await
OnEnd ==
  /\ entry = "service" /\ pc = "body"
  /\ IF req.body.kind = "malformed"
     THEN /\ responses' = Append(responses,
               Reply(500, "error", <<"Server error: ", "Unexpected token">>, <<>>))
          /\ pc' = "responded"
          /\ UNCHANGED <<cur, results, ret, loc, log, resps, dir>>
     ELSE IF req.body.kind = "null"
     THEN /\ responses' = Append(responses,
               Reply(500, "error",
                     <<"Server error: ", "Cannot destructure property 'urls'">>, <<>>))
          /\ pc' = "responded"
          /\ UNCHANGED <<cur, results, ret, loc, log, resps, dir>>
     ELSE IF req.body.urls.t # "array" \/ req.body.urls.v = <<>>
     THEN /\ responses' = Append(responses,
               Reply(400, "error", <<"No URLs provided">>, <<>>))
          /\ pc' = "responded"
          /\ UNCHANGED <<cur, results, ret, loc, log, resps, dir>>
     ELSE \E exists \in BOOLEAN, mkdirOk \in BOOLEAN :
            IF ~exists /\ ~mkdirOk
            THEN /\ dir' = "missing"
                 /\ responses' = Append(responses,
                      Reply(400, "error",
                            <<"Cannot create download directory: ", "EACCES">>, <<>>))
                 /\ pc' = "responded"
                 /\ UNCHANGED <<cur, results, ret, loc, log, resps>>
            ELSE /\ dir' = "exists"
                 /\ Continue(1, <<>>)
  /\ UNCHANGED <<entry, req, other, files, fnIn, fnOut>>

(* ---------------------------------------------------------------------- *)
(* server.mjs: downloadTikTokVideo and its helpers (13-124)                *)
(* ---------------------------------------------------------------------- *)
\* the url downloadTikTokVideo was called with: url.trim()
curUrl == Trim(req.body.urls.v[cur].v)

testNetworkConnectivityAlwaysTrue(o) == TRUE

\* return testResponse.ok, and false from the catch block
testNetworkConnectivity(o) == o.kind = "response" /\ Ok(o.status)

\* if (!res.ok) continue, and the catch block: whether res.json() is awaited
tryTikWmAPI_fetched(o) ==
  IF o.kind = "response" /\ Ok(o.status) THEN "json" ELSE "continue"

\* data.data.title || 'tiktok_video'
titleOrDefault(t) ==
  IF t.t = "undefined" \/ (t.t = "string" /\ t.v = <<>>)
  THEN Str(Placeholder) ELSE t

tryTikWmAPI_parsedMessageFirst(j) ==
  IF j.kind # "object" THEN "continue"
  ELSE IF j.msg # <<>> /\ classifyMsg(j.msg) # "UNKNOWN" THEN classifyMsg(j.msg)
  ELSE IF j.play # "" THEN "resolved"
  ELSE "continue"

tryTikWmAPI_parsedUnknownStops(j) ==
  IF j.kind # "object" THEN "continue"
  ELSE IF j.play # "" THEN "resolved"
  ELSE IF j.msg # <<>> THEN
         (IF classifyMsg(j.msg) = "UNKNOWN" THEN "NOT_FOUND" ELSE classifyMsg(j.msg))
  ELSE "continue"

\* lines 41-60 for one endpoint: what the loop body does with the parsed
\* payload ("continue" also when res.json() rejects or data is null)
tryTikWmAPI_parsed(j) ==
  IF j.kind # "object" THEN "continue"
  ELSE IF j.play # "" THEN "resolved"
  ELSE IF j.msg # <<>> /\ classifyMsg(j.msg) # "UNKNOWN" THEN classifyMsg(j.msg)
  ELSE "continue"

\* the item's pipeline settles with this outcome; the handler has not resumed
Settle(outcome) ==
  /\ ret' = outcome
  /\ pc' = "awaitResult"
  /\ UNCHANGED <<log, loc>>

NextEndpointRetriesOnce ==
  IF Cardinality({k \in 1..Len(log) : log[k] = Request(cur, "endpoint", loc.ep)}) < 2
  THEN /\ log' = Append(log, Request(cur, "endpoint", loc.ep))
       /\ loc' = loc
       /\ pc' = "chainFetch"
       /\ ret' = ret
  ELSE IF loc.ep < NumEndpoints
  THEN /\ log' = Append(log, Request(cur, "endpoint", loc.ep + 1))
       /\ loc' = [loc EXCEPT !.ep = loc.ep + 1]
       /\ pc' = "chainFetch"
       /\ ret' = ret
  ELSE Settle(Failure(ErrAllFailed))

\* the for loop of tryTikWmAPI moves on: the next endpoint is requested, or
\* null is returned and line 87 throws
NextEndpoint ==
  IF loc.ep < NumEndpoints
  THEN /\ log' = Append(log, Request(cur, "endpoint", loc.ep + 1))
       /\ loc' = [loc EXCEPT !.ep = loc.ep + 1]
       /\ pc' = "chainFetch"
       /\ ret' = ret
  ELSE Settle(Failure(ErrAllFailed))

\* lines 90-102: file name, then the retrieval GET
Retrieve(j) ==
  LET title == titleOrDefault(j.title)
  IN IF title.t # "string"
     THEN Settle(Failure(ErrTitleType))
     ELSE \E url \in {curUrl} :
            /\ loc' = [loc EXCEPT !.videoUrl = j.play, !.title = title,
                                  !.fileName = <<targetPath>> \o baseName(title.v, url)]
            /\ log' = Append(log, Request(cur, "get", 1))
            /\ pc' = "retrieve"
            /\ ret' = ret

\* await testNetworkConnectivity() settles
ProbeSettles ==
  /\ entry = "service" /\ pc = "probe"
  /\ \E o \in ProbeOutcomes :
       /\ resps' = Append(resps, Resp("probe", 1, o.kind, o.status, NoPayload))
       /\ IF testNetworkConnectivity(o)
          THEN /\ log' = Append(log, Request(cur, "endpoint", 1))
               /\ loc' = [loc EXCEPT !.ep = 1]
               /\ pc' = "chainFetch"
               /\ ret' = ret
          ELSE Settle(Failure(ErrNetwork))
  /\ UNCHANGED <<entry, req, dir, other, cur, results, files, responses, fnIn, fnOut>>

\* await fetch(apiUrl) settles
EndpointSettles ==
  /\ entry = "service" /\ pc = "chainFetch"
  /\ \E o \in EndpointOutcomes :
       /\ resps' = Append(resps, Resp("endpoint", loc.ep, o.kind, o.status, NoPayload))
       /\ IF tryTikWmAPI_fetched(o) = "json"
          THEN /\ pc' = "chainJson"
               /\ UNCHANGED <<log, loc, ret>>
          ELSE NextEndpoint
  /\ UNCHANGED <<entry, req, dir, other, cur, results, files, responses, fnIn, fnOut>>

\* await res.json() settles
JsonSettles ==
  /\ entry = "service" /\ pc = "chainJson"
  /\ \E j \in JsonOutcomes :
       /\ resps' = Append(resps, Resp("json", loc.ep, j.kind, 200, j))
       /\ CASE tryTikWmAPI_parsed(j) = "resolved" -> Retrieve(j)
            [] tryTikWmAPI_parsed(j) = "PRIVATE" -> Settle(Failure(ErrPrivate))
            [] tryTikWmAPI_parsed(j) = "NOT_FOUND" -> Settle(Failure(ErrNotFound))
            [] OTHER -> NextEndpoint
  /\ UNCHANGED <<entry, req, dir, other, cur, results, files, responses, fnIn, fnOut>>

retrievalErrorNoStatus(o) ==
  IF o.kind = "throw" THEN ErrFetch
  ELSE IF ~Ok(o.status) THEN <<"Video download failed">>
  ELSE <<>>

\* lines 98-106: the error thrown for the retrieval response, <<>> if none
retrievalError(o) ==
  IF o.kind = "throw" THEN ErrFetch
  ELSE IF ~Ok(o.status) THEN ErrDownload(o.status)
  ELSE <<>>

\* await fetch(videoUrl) settles
RetrievalSettles ==
  /\ entry = "service" /\ pc = "retrieve"
  /\ \E o \in RetrievalOutcomes :
       /\ resps' = Append(resps, Resp("get", 1, o.kind, o.status, NoPayload))
       /\ IF retrievalError(o) # <<>>
          THEN /\ Settle(Failure(retrievalError(o)))
               /\ files' = files
          ELSE /\ files' = Append(files, [item |-> cur, path |-> loc.fileName,
                                          state |-> "open"])
               /\ pc' = "stream"
               /\ UNCHANGED <<log, loc, ret>>
  /\ UNCHANGED <<entry, req, dir, other, cur, results, responses, fnIn, fnOut>>

\* path.basename(fileName)
basename(p) == SubSeq(p, 2, Len(p))

pipelineResultAlwaysSuccess(finished) ==
  [success |-> TRUE, error |-> <<>>, fileName |-> basename(loc.fileName),
   fullPath |-> loc.fileName, title |-> loc.title.v]

\* lines 109-123: what downloadTikTokVideo returns once pipeline() settles
pipelineResult(finished) ==
  IF finished
  THEN [success |-> TRUE, error |-> <<>>, fileName |-> basename(loc.fileName),
        fullPath |-> loc.fileName, title |-> loc.title.v]
  ELSE Failure(ErrStream)

\* await pipeline(videoRes.body, fileStream) settles
StreamSettles ==
  /\ entry = "service" /\ pc = "stream"
  /\ \E finished \in BOOLEAN :
       /\ resps' = Append(resps, Resp("stream", 1,
                                      IF finished THEN "finish" ELSE "throw",
                                      0, NoPayload))
       /\ files' = [files EXCEPT ![Len(files)].state =
                      IF finished THEN "complete" ELSE "partial"]
       /\ Settle(pipelineResult(finished))
  /\ UNCHANGED <<entry, req, dir, other, cur, results, responses, fnIn, fnOut>>

\* const result = await downloadTikTokVideo(...) resumes: push, next elements
LoopResumes ==
  /\ entry = "service" /\ pc = "awaitResult"
  /\ \E pushed \in {Append(results, ResultEntry(req.body.urls.v[cur].v, ret))} :
       Continue(cur + 1, pushed)
  /\ UNCHANGED <<entry, req, dir, other, files, fnIn, fnOut>>

(* ---------------------------------------------------------------------- *)
(* index.mjs: direct invocation                                            *)
(* ---------------------------------------------------------------------- *)
\* process.argv[2]: missing, or a string
CommandLines ==
  {HttpRequest("argv", "", Body("argv", a, "")) :
     a \in {Absent, Str(<<>>), Str(UrlNotTikTok), Str(UrlWithId), Str(UrlNoId)}}

inputUrl == req.body.urls.v

ContentVideo == <<"v","i","d","e","o","/","m","p","4">>
ContentHtml == <<"t","e","x","t","/","h","t","m","l">>
KwVideo == <<"v","i","d","e","o">>
FallbackName == <<"t","i","k","t","o","k","_">>

\* how the HEAD request of a candidate settles; contentType <<>> is a missing
\* content-type header
HeadResult(kind, status, contentType) ==
  [kind |-> kind, status |-> status, contentType |-> contentType]
HeadOutcomes ==
  {HeadResult("throw", 0, <<>>), HeadResult("response", 200, ContentVideo),
   HeadResult("response", 200, ContentHtml), HeadResult("response", 200, <<>>),
   HeadResult("response", 404, ContentVideo)}
HeadData(h) ==
  [kind |-> "head", play |-> "", title |-> Absent, msg |-> h.contentType]

IdxErrNetwork ==
  <<"Network connectivity issues detected. Please check your internet connection.">>
IdxErrAllFailed ==
  <<"All API methods failed. The video might be private, deleted, or the APIs are down.">>

\* lines 22-34: true, false from the catch block, and undefined when the
\* response is not ok (the function falls off its end)
idx_testNetworkConnectivity(o) ==
  IF o.kind = "throw" THEN "false"
  ELSE IF Ok(o.status) THEN "true" ELSE "undefined"

\* if (!res.ok) continue, and the catch block
idx_tryTikWmAPI_fetched(o) ==
  IF o.kind = "response" /\ Ok(o.status) THEN "json" ELSE "continue"

\* lines 59-71: index.mjs does not look at data.msg
idx_tryTikWmAPI_parsed(j) ==
  IF j.kind # "object" THEN "continue"
  ELSE IF j.play # "" THEN "resolved"
  ELSE "continue"

idx_candidateAcceptedAnyType(h) ==
  h.kind = "response" /\ Ok(h.status)

\* response.ok && response.headers.get('content-type')?.includes('video')
idx_candidateAccepted(h) ==
  h.kind = "response" /\ Ok(h.status) /\ Includes(h.contentType, KwVideo)

\* the process ends: downloadTikTok returned (exit code 0) or process.exit(1)
Exit(code, outcome) ==
  /\ ret' = outcome
  /\ pc' = "exited"
  /\ responses' = Append(responses, Reply(code, "exit", outcome.error, <<>>))
  /\ UNCHANGED <<log, loc, files>>

\* lines 150-164: file name beside the script, then the retrieval GET
IdxRetrieve(videoUrl, title) ==
  IF title.t # "string"
  THEN Exit(0, Failure(ErrTitleType))
  ELSE /\ loc' = [loc EXCEPT !.videoUrl = videoUrl, !.title = title,
                             !.fileName = <<".">> \o baseName(title.v, inputUrl)]
       /\ log' = Append(log, Request(cur, "get", 1))
       /\ pc' = "idxRetrieve"
       /\ UNCHANGED <<ret, responses, files>>

\* the loop over possibleVideoUrls moves on, or tryAlternativeAPI returns
\* null and line 140 gives up
NextCandidate(n) ==
  IF n <= NumCandidates
  THEN /\ log' = Append(log, Request(cur, "head", n))
       /\ loc' = [loc EXCEPT !.ep = n]
       /\ pc' = "idxHead"
       /\ UNCHANGED <<ret, responses, files>>
  ELSE Exit(0, Failure(IdxErrAllFailed))

IdxNextEndpointProbesEarly ==
  IF MatchVideoId(inputUrl) # <<>>
  THEN NextCandidate(1)
  ELSE IF loc.ep < NumEndpoints
  THEN /\ log' = Append(log, Request(cur, "endpoint", loc.ep + 1))
       /\ loc' = [loc EXCEPT !.ep = loc.ep + 1]
       /\ pc' = "idxChainFetch"
       /\ UNCHANGED <<ret, responses, files>>
  ELSE Exit(0, Failure(IdxErrAllFailed))

\* the loop of tryTikWmAPI moves on; after the last endpoint line 137 calls
\* tryAlternativeAPI, which needs the numeric id of the url
IdxNextEndpoint ==
  IF loc.ep < NumEndpoints
  THEN /\ log' = Append(log, Request(cur, "endpoint", loc.ep + 1))
       /\ loc' = [loc EXCEPT !.ep = loc.ep + 1]
       /\ pc' = "idxChainFetch"
       /\ UNCHANGED <<ret, responses, files>>
  ELSE IF MatchVideoId(inputUrl) = <<>>
       THEN Exit(0, Failure(IdxErrAllFailed))
       ELSE NextCandidate(1)

\* lines 188-201 up to the first await of downloadTikTok
Main ==
  /\ entry = "direct" /\ pc = "start"
  /\ IF req.body.urls.t # "string" \/ inputUrl = <<>>
     THEN /\ Exit(1, Failure(<<"Usage: node index.mjs \"<tiktok-url>\"">>))
          /\ cur' = cur
     ELSE IF ~Includes(inputUrl, HostMarker)
     THEN /\ Exit(1, Failure(<<"Please provide a valid TikTok URL">>))
          /\ cur' = cur
     ELSE /\ cur' = 1
          /\ log' = Append(log, Request(1, "probe", 1))
          /\ pc' = "idxProbe"
          /\ UNCHANGED <<ret, loc, responses, files>>
  /\ UNCHANGED <<entry, req, dir, other, results, resps, fnIn, fnOut>>

IdxProbeSettles ==
  /\ entry = "direct" /\ pc = "idxProbe"
  /\ \E o \in ProbeOutcomes :
       /\ resps' = Append(resps, Resp("probe", 1, o.kind, o.status, NoPayload))
       /\ IF idx_testNetworkConnectivity(o) = "true"
          THEN /\ log' = Append(log, Request(cur, "endpoint", 1))
               /\ loc' = [loc EXCEPT !.ep = 1]
               /\ pc' = "idxChainFetch"
               /\ UNCHANGED <<ret, responses, files>>
          ELSE Exit(0, Failure(IdxErrNetwork))
  /\ UNCHANGED <<entry, req, dir, other, cur, results, fnIn, fnOut>>

IdxEndpointSettles ==
  /\ entry = "direct" /\ pc = "idxChainFetch"
  /\ \E o \in EndpointOutcomes :
       /\ resps' = Append(resps, Resp("endpoint", loc.ep, o.kind, o.status, NoPayload))
       /\ IF idx_tryTikWmAPI_fetched(o) = "json"
          THEN /\ pc' = "idxChainJson"
               /\ UNCHANGED <<log, loc, ret, responses, files>>
          ELSE IdxNextEndpoint
  /\ UNCHANGED <<entry, req, dir, other, cur, results, fnIn, fnOut>>

IdxJsonSettles ==
  /\ entry = "direct" /\ pc = "idxChainJson"
  /\ \E j \in JsonOutcomes :
       /\ resps' = Append(resps, Resp("json", loc.ep, j.kind, 200, j))
       /\ IF idx_tryTikWmAPI_parsed(j) = "resolved"
          THEN IdxRetrieve(j.play, titleOrDefault(j.title))
          ELSE IdxNextEndpoint
  /\ UNCHANGED <<entry, req, dir, other, cur, results, fnIn, fnOut>>

\* await fetch(testUrl, { method: 'HEAD' }) settles
IdxHeadSettles ==
  /\ entry = "direct" /\ pc = "idxHead"
  /\ \E h \in HeadOutcomes :
       /\ resps' = Append(resps, Resp("head", loc.ep, h.kind, h.status, HeadData(h)))
       /\ IF idx_candidateAccepted(h)
          THEN IdxRetrieve(IF loc.ep = 1 THEN "https://v16-webapp/" ELSE "https://v19-webapp/",
                           Str(FallbackName \o MatchVideoId(inputUrl)))
          ELSE NextCandidate(loc.ep + 1)
  /\ UNCHANGED <<entry, req, dir, other, cur, results, fnIn, fnOut>>

IdxRetrievalSettles ==
  /\ entry = "direct" /\ pc = "idxRetrieve"
  /\ \E o \in RetrievalOutcomes :
       /\ resps' = Append(resps, Resp("get", 1, o.kind, o.status, NoPayload))
       /\ IF retrievalError(o) # <<>>
          THEN Exit(0, Failure(retrievalError(o)))
          ELSE /\ files' = Append(files, [item |-> cur, path |-> loc.fileName,
                                          state |-> "open"])
               /\ pc' = "idxStream"
               /\ UNCHANGED <<log, loc, ret, responses>>
  /\ UNCHANGED <<entry, req, dir, other, cur, results, fnIn, fnOut>>

IdxStreamSettles ==
  /\ entry = "direct" /\ pc = "idxStream"
  /\ \E finished \in BOOLEAN :
       /\ resps' = Append(resps, Resp("stream", 1,
                                      IF finished THEN "finish" ELSE "throw",
                                      0, NoPayload))
       /\ ret' = pipelineResult(finished)
       /\ pc' = "exited"
       /\ responses' = Append(responses, Reply(0, "exit", ret'.error, <<>>))
       /\ files' = [files EXCEPT ![Len(files)].state =
                      IF finished THEN "complete" ELSE "partial"]
       /\ UNCHANGED <<log, loc>>
  /\ UNCHANGED <<entry, req, dir, other, cur, results, fnIn, fnOut>>

(* ---------------------------------------------------------------------- *)
(* The two entry points                                                    *)
(* ---------------------------------------------------------------------- *)
NoFn == [op |-> "none", title |-> <<>>, url |-> <<>>, msg |-> <<>>]
NoOut == [done |-> FALSE, text |-> <<>>, name |-> <<>>, class |-> ""]

Init ==
  /\ \/ entry = "service" /\ req \in ServiceRequests /\ pc = "accepted"
     \/ entry = "direct" /\ req \in CommandLines /\ pc = "start"
  /\ cur = 0
  /\ results = <<>>
  /\ ret = NoRet
  /\ loc = NoLoc
  /\ log = <<>>
  /\ resps = <<>>
  /\ files = <<>>
  /\ responses = <<>>
  /\ fnIn = NoFn
  /\ fnOut = NoOut
  /\ dir = "unknown"
  /\ other = NoContext

Next ==
  \/ Handler
  \/ OnEnd
  \/ ProbeSettles
  \/ EndpointSettles
  \/ JsonSettles
  \/ RetrievalSettles
  \/ StreamSettles
  \/ LoopResumes
  \/ Main
  \/ IdxProbeSettles
  \/ IdxEndpointSettles
  \/ IdxJsonSettles
  \/ IdxHeadSettles
  \/ IdxRetrievalSettles
  \/ IdxStreamSettles

Spec == Init /\ [][Next]_vars

\* every pending fetch, body read and stream settles (or times out), and the
\* event loop then runs the callback waiting for it
SpecLive == Init /\ [][Next]_vars /\ WF_vars(Next)

(* ---------------------------------------------------------------------- *)
(* The helpers on their own                                                *)
(* ---------------------------------------------------------------------- *)
\* the title made of n characters, repeating pattern p
Rep(p, n) == [i \in 1..n |-> p[((i - 1) % Len(p)) + 1]]

TitlePatterns ==
  {<<"a">>, <<"!">>, <<"A","?","-","_","9"," ">>, <<"/",".","Z","#">>}
TitleLens == (0..3) \cup ((TitleLimit - 1)..(TitleLimit + TitleOver))
FnTitles == {Rep(p, n) : p \in TitlePatterns, n \in TitleLens} \cup {THello, TShort}
FnUrls == {UrlWithId, Trim(UrlWithId), UrlNoId, UrlNotTikTok, UrlForeignId}
FnMessages ==
  {MPrivate, MPrivateCap, MFriends, MNotFound, MNotFoundCap, MDeleted, MBusy,
   MBoth, <<"o","k">>}

FnInput(op, title, url, msg) ==
  [op |-> op, title |-> title, url |-> url, msg |-> msg]
FnInputs ==
  {FnInput("derive", t, u, <<>>) : t \in FnTitles, u \in FnUrls}
  \cup {FnInput("classify", <<>>, <<>>, m) : m \in FnMessages}

InitFn ==
  /\ entry = "fn" /\ pc = "fn"
  /\ req = HttpRequest("none", "", NoBody)
  /\ fnIn \in FnInputs
  /\ fnOut = NoOut
  /\ cur = 0
  /\ results = <<>>
  /\ ret = NoRet
  /\ loc = NoLoc
  /\ log = <<>>
  /\ resps = <<>>
  /\ files = <<>>
  /\ responses = <<>>
  /\ dir = "unknown"
  /\ other = NoContext

\* lines 93-95 of server.mjs on a title and a url
Derive ==
  /\ entry = "fn" /\ fnIn.op = "derive" /\ ~fnOut.done
  /\ fnOut' = [done |-> TRUE, text |-> sanitizedTitle(fnIn.title),
               name |-> baseName(fnIn.title, fnIn.url), class |-> ""]
  /\ UNCHANGED <<entry, req, dir, other, pc, cur, results, ret, loc, log, resps, files,
                 responses, fnIn>>

\* lines 51-57 of server.mjs on a message
Classify ==
  /\ entry = "fn" /\ fnIn.op = "classify" /\ ~fnOut.done
  /\ fnOut' = [done |-> TRUE, text |-> <<>>, name |-> <<>>,
               class |-> classifyMsg(fnIn.msg)]
  /\ UNCHANGED <<entry, req, dir, other, pc, cur, results, ret, loc, log, resps, files,
                 responses, fnIn>>

NextFn == Derive \/ Classify

SpecFn == InitFn /\ [][NextFn]_vars

(* ---------------------------------------------------------------------- *)
(* The resolution stage of both entry points on one set of answers         *)
(* ---------------------------------------------------------------------- *)
\* how one provider endpoint answers: the fetch, and res.json() when read
Answer(fetch, json) == [fetch |-> fetch, json |-> json]
EndpointAnswers ==
  {Answer(Settled(500), NoPayload), Answer(Rejected, NoPayload)}
  \cup {Answer(Settled(200), j) :
          j \in {JsonThrows, Payload("https://cdn/a", Str(TShort), <<>>),
                 Payload("", Str(TShort), MPrivate),
                 Payload("", Str(TShort), MNotFound),
                 Payload("", Str(TShort), MBusy)}}

\* the world both pipelines are run in: the source url and the answer to
\* every request they can make
Script(url, probe, endpoints, heads) ==
  [url |-> url, probe |-> probe, endpoints |-> endpoints, heads |-> heads]
Scripts ==
  {Script(u, p, e, h) :
     u \in {Trim(UrlWithId), UrlNoId}, p \in ProbeOutcomes,
     e \in [1..NumEndpoints -> EndpointAnswers],
     h \in [1..NumCandidates -> HeadOutcomes]}

\* what the resolution stage ends with, and the requests it issued
Resolution(outcome, videoUrl, title, requests) ==
  [outcome |-> outcome, videoUrl |-> videoUrl, title |-> title,
   requests |-> requests]
NotRun == Resolution("", "", Absent, <<>>)
Sent(kind, n) == [kind |-> kind, n |-> n]

RECURSIVE srvChain(_, _, _)
\* server.mjs tryTikWmAPI from endpoint n on, then lines 82-88
srvChain(s, n, sent) ==
  IF n > NumEndpoints THEN Resolution("Unresolved", "", Absent, sent)
  ELSE LET now == Append(sent, Sent("endpoint", n))
           a == s.endpoints[n]
           step == IF tryTikWmAPI_fetched(a.fetch) = "json"
                   THEN tryTikWmAPI_parsed(a.json) ELSE "continue"
       IN CASE step = "resolved" ->
                 Resolution("Resolved", a.json.play, titleOrDefault(a.json.title), now)
            [] step = "PRIVATE" -> Resolution("Private", "", Absent, now)
            [] step = "NOT_FOUND" -> Resolution("NotFound", "", Absent, now)
            [] OTHER -> srvChain(s, n + 1, now)

\* server.mjs downloadTikTokVideo, lines 74-88
srvResolve(s) ==
  IF ~testNetworkConnectivity(s.probe)
  THEN Resolution("Network", "", Absent, <<Sent("probe", 1)>>)
  ELSE srvChain(s, 1, <<Sent("probe", 1)>>)

RECURSIVE idxCandidates(_, _, _)
\* index.mjs tryAlternativeAPI from candidate n on, then lines 140-141
idxCandidates(s, n, sent) ==
  IF n > NumCandidates THEN Resolution("Unresolved", "", Absent, sent)
  ELSE LET now == Append(sent, Sent("head", n))
       IN IF idx_candidateAccepted(s.heads[n])
          THEN Resolution("Resolved",
                          IF n = 1 THEN "https://v16-webapp/" ELSE "https://v19-webapp/",
                          Str(FallbackName \o MatchVideoId(s.url)), now)
          ELSE idxCandidates(s, n + 1, now)

RECURSIVE idxChain(_, _, _)
\* index.mjs tryTikWmAPI from endpoint n on, then line 137
idxChain(s, n, sent) ==
  IF n > NumEndpoints
  THEN IF MatchVideoId(s.url) = <<>>
       THEN Resolution("Unresolved", "", Absent, sent)
       ELSE idxCandidates(s, 1, sent)
  ELSE LET now == Append(sent, Sent("endpoint", n))
           a == s.endpoints[n]
           step == IF idx_tryTikWmAPI_fetched(a.fetch) = "json"
                   THEN idx_tryTikWmAPI_parsed(a.json) ELSE "continue"
       IN IF step = "resolved"
          THEN Resolution("Resolved", a.json.play, titleOrDefault(a.json.title), now)
          ELSE idxChain(s, n + 1, now)

\* index.mjs downloadTikTok, lines 125-141
idxResolve(s) ==
  IF idx_testNetworkConnectivity(s.probe) # "true"
  THEN Resolution("Network", "", Absent, <<Sent("probe", 1)>>)
  ELSE idxChain(s, 1, <<Sent("probe", 1)>>)

InitPair ==
  /\ entry = "pair" /\ pc = "pair"
  /\ req = HttpRequest("none", "", NoBody)
  /\ fnIn \in Scripts
  /\ fnOut = [srv |-> NotRun, idx |-> NotRun]
  /\ cur = 0
  /\ results = <<>>
  /\ ret = NoRet
  /\ loc = NoLoc
  /\ log = <<>>
  /\ resps = <<>>
  /\ files = <<>>
  /\ responses = <<>>
  /\ dir = "unknown"
  /\ other = NoContext

\* the service pipeline resolves the url
ResolveService ==
  /\ entry = "pair" /\ fnOut.srv = NotRun
  /\ fnOut' = [fnOut EXCEPT !.srv = srvResolve(fnIn)]
  /\ UNCHANGED <<entry, req, dir, other, pc, cur, results, ret, loc, log, resps, files,
                 responses, fnIn>>

\* the direct invocation resolves the url
ResolveDirect ==
  /\ entry = "pair" /\ fnOut.idx = NotRun
  /\ fnOut' = [fnOut EXCEPT !.idx = idxResolve(fnIn)]
  /\ UNCHANGED <<entry, req, dir, other, pc, cur, results, ret, loc, log, resps, files,
                 responses, fnIn>>

NextPair == ResolveService \/ ResolveDirect

SpecPair == InitPair /\ [][NextPair]_vars

(* ---------------------------------------------------------------------- *)
(* Two POST /api/download requests in the one server process               *)
(* ---------------------------------------------------------------------- *)
\* the bodies of the two requests
PairedBodies ==
  {Body("object", ArrayOf(<<Str(UrlWithId), Str(UrlNotTikTok)>>), ""),
   Body("object", ArrayOf(<<Str(UrlBlank), Str(UrlWithId)>>), "")}

\* what one invocation of the handler owns: req, res and the variables
\* declared inside the callbacks (body, results, the locals of
\* downloadTikTokVideo), with the requests it issued
Closure ==
  [req |-> req, pc |-> pc, cur |-> cur, results |-> results, ret |-> ret,
   loc |-> loc, log |-> log, resps |-> resps, responses |-> responses]

InitTwo ==
  /\ entry = "service" /\ pc = "accepted"
  /\ req = HttpRequest("POST", "/api/download",
                       Body("object", ArrayOf(<<Str(UrlWithId), Str(UrlNotTikTok)>>), ""))
  /\ cur = 0
  /\ results = <<>>
  /\ ret = NoRet
  /\ loc = NoLoc
  /\ log = <<>>
  /\ resps = <<>>
  /\ files = <<>>
  /\ responses = <<>>
  /\ fnIn = NoFn
  /\ fnOut = NoOut
  /\ dir = "unknown"
  /\ \E r \in {HttpRequest("POST", "/api/download", b) : b \in PairedBodies} :
       other = [req |-> r, pc |-> "accepted", cur |-> 0, results |-> <<>>,
                ret |-> NoRet, loc |-> NoLoc, log |-> <<>>, resps |-> <<>>,
                responses |-> <<>>]

ResumeSharedResults(c) ==
  /\ req' = c.req
  /\ pc' = c.pc
  /\ cur' = c.cur
  /\ results' = results
  /\ ret' = c.ret
  /\ loc' = c.loc
  /\ log' = c.log
  /\ resps' = c.resps
  /\ responses' = c.responses

\* the event loop runs a callback of the invocation with closure c
Resume(c) ==
  /\ req' = c.req
  /\ pc' = c.pc
  /\ cur' = c.cur
  /\ results' = c.results
  /\ ret' = c.ret
  /\ loc' = c.loc
  /\ log' = c.log
  /\ resps' = c.resps
  /\ responses' = c.responses

\* the running invocation is suspended at an await (or has returned) and the
\* event loop turns to the other one; files and dir are the file system
Switch ==
  /\ entry = "service" /\ other # NoContext
  /\ other.pc # "responded"
  /\ other' = Closure
  /\ Resume(other)
  /\ UNCHANGED <<entry, files, dir, fnIn, fnOut>>

NextTwo ==
  \/ Handler
  \/ OnEnd
  \/ ProbeSettles
  \/ EndpointSettles
  \/ JsonSettles
  \/ RetrievalSettles
  \/ StreamSettles
  \/ LoopResumes
  \/ Switch

SpecTwo == InitTwo /\ [][NextTwo]_vars

(* ====================================================================== *)
(* Properties                                                              *)
(* ====================================================================== *)
\* the urls array of the batch request
Urls == req.body.urls.v
IsBatch ==
  entry = "service" /\ req.body.kind = "object" /\ req.body.urls.t = "array"
AllStrings == \A i \in 1..Len(Urls) : Urls[i].t = "string"
Is2xx(status) == status \in 200..299
\* the requests logged for batch item i
RequestsOf(i) == {k \in 1..Len(log) : log[k].item = i}
LastResp == resps[Len(resps)]

(* C1: a results list sent back for a batch has one entry per input url,   *)
(* in input order, and entry i carries the trimmed urls[i], whatever the   *)
(* outcomes of the items are; the list under construction is always such   *)
(* a prefix.                                                               *)
BatchResultMatchesInput ==
  IsBatch =>
    /\ Len(results) <= Len(Urls)
    /\ \A i \in 1..Len(results) :
         Urls[i].t = "string" /\ results[i].url = Trim(Urls[i].v)
    /\ \A k \in 1..Len(responses) :
         responses[k].kind = "results" =>
           /\ responses[k].results = results
           /\ Len(responses[k].results) = Len(Urls)

BatchResultMixedOutcomes ==
  /\ IsBatch /\ pc = "responded"
  /\ Len(responses) = 1 /\ responses[1].kind = "results"
  /\ Len(responses[1].results) = 2
  /\ responses[1].results[1].success
  /\ ~responses[1].results[2].success
  /\ Urls[1].v # responses[1].results[1].url

StageFailed(r) ==
  \/ r.stage \in {"probe", "get"} /\ (r.kind = "throw" \/ ~Is2xx(r.status))
  \/ r.stage = "stream" /\ r.kind = "throw"
  \/ /\ r.stage = "json" /\ r.kind = "object"
     /\ \/ r.data.play # "" /\ r.data.title.t = "number"
        \/ r.data.play = "" /\ r.data.msg \in {MPrivate, MNotFound, MDeleted, MBoth}
  \/ /\ r.n = NumEndpoints
     /\ \/ r.stage = "endpoint" /\ (r.kind = "throw" \/ ~Is2xx(r.status))
        \/ r.stage = "json" /\ (r.kind # "object" \/ r.data.play = "")

(* C2: whatever stage of an item fails, the item settles as success:false  *)
(* with an error, the loop goes on to the later items, which enter the     *)
(* pipeline, and the batch is answered 200 with all its entries.           *)
FailureIsolation ==
  entry = "service" =>
    /\ (\E k \in 1..Len(resps) : StageFailed(resps[k])) =>
         pc = "awaitResult" /\ ~ret.success /\ ret.error # <<>>
    /\ \A i \in 1..Len(results) : ~results[i].success => results[i].error # <<>>
    /\ (IsBatch /\ AllStrings /\ results # <<>>) =>
         /\ cur > Len(results)
         /\ pc = "responded" =>
              /\ Len(responses) = 1 /\ responses[1].status = 200
              /\ Len(results) = Len(Urls)
              /\ \A i \in 1..Len(Urls) :
                   Includes(Urls[i].v, HostMarker) => RequestsOf(i) # {}

FailureThenSuccess ==
  /\ IsBatch /\ pc = "responded" /\ Len(results) = 2
  /\ results[1].error \in {<<"aborted">>, <<"title.replace is not a function">>}
  /\ results[2].success
  /\ responses[1].status = 200

(* C3: an item whose url lacks the host marker, or is blank once trimmed,  *)
(* is recorded as success:false with the validation error, and no request  *)
(* of any kind is ever logged for it.                                      *)
NoNetworkForInvalidUrl ==
  IsBatch =>
    \A i \in 1..Len(results) :
      (~Includes(Urls[i].v, HostMarker) \/ Trim(Urls[i].v) = <<>>) =>
        /\ ~results[i].success
        /\ results[i].error = <<"Invalid TikTok URL">>
        /\ RequestsOf(i) = {}

InvalidUrlBesideNetworkUse ==
  /\ IsBatch /\ Len(results) = 2 /\ log # <<>>
  /\ \E i \in 1..2 : Urls[i].v \in {UrlBlank, UrlNotTikTok}
                     /\ results[i].error = <<"Invalid TikTok URL">>
                     /\ RequestsOf(3 - i) # {}

(* C4: success:true is only ever reported after the retrieval GET          *)
(* answered 2xx and the stream to the file finished; a non-2xx answer, a   *)
(* rejected GET or an interrupted stream always gives success:false, and   *)
(* every successful entry has its completely written file.                 *)
SuccessRequiresCompleteStream ==
  entry = "service" =>
    /\ (pc = "awaitResult" /\ ret.success) =>
         /\ Len(resps) >= 2
         /\ LastResp.stage = "stream" /\ LastResp.kind = "finish"
         /\ resps[Len(resps) - 1].stage = "get"
         /\ resps[Len(resps) - 1].kind = "response"
         /\ Is2xx(resps[Len(resps) - 1].status)
    /\ (\E k \in 1..Len(resps) :
          \/ resps[k].stage = "get" /\ (resps[k].kind = "throw" \/ ~Is2xx(resps[k].status))
          \/ resps[k].stage = "stream" /\ resps[k].kind = "throw") =>
         pc = "awaitResult" /\ ~ret.success
    /\ \A i \in 1..Len(results) :
         results[i].success <=>
           \E f \in 1..Len(files) : /\ files[f].item = i
                                    /\ files[f].state = "complete"
                                    /\ files[f].path = results[i].fullPath
    /\ \A f \in 1..Len(files) :
         (files[f].state = "partial" /\ files[f].item = cur /\ pc = "awaitResult")
           => ~ret.success

SuccessBesidePartialWrite ==
  /\ entry = "service" /\ Len(results) = 2
  /\ \E i \in 1..2 : results[i].success /\ results[3 - i].error = <<"aborted">>
  /\ \E f \in 1..Len(files) : files[f].state = "partial"

\* the classifier as the design describes it: substrings matched in any
\* letter case
ToLower(s) ==
  [i \in 1..Len(s) |->
     IF \E k \in 1..Len(UpperCase) : UpperCase[k] = s[i]
     THEN LowerCase[CHOOSE k \in 1..Len(UpperCase) : UpperCase[k] = s[i]]
     ELSE s[i]]
ClassifyAnyCase(msg) ==
  IF Includes(ToLower(msg), KwPrivate) \/ Includes(ToLower(msg), KwFriends)
  THEN "PRIVATE"
  ELSE IF Includes(ToLower(msg), KwNotFound) \/ Includes(ToLower(msg), KwDeleted)
       THEN "NOT_FOUND"
       ELSE "UNKNOWN"

\* responses of the provider chain, by what they mean for the chain
ResolvedResp(r) == r.stage = "json" /\ r.kind = "object" /\ r.data.play # ""
MessageResp(r) ==
  r.stage = "json" /\ r.kind = "object" /\ r.data.play = "" /\ r.data.msg # <<>>
AbstainResp(r) ==
  \/ r.stage = "endpoint" /\ (r.kind = "throw" \/ ~Is2xx(r.status))
  \/ r.stage = "json" /\ r.kind \in {"throw", "null"}
  \/ r.stage = "json" /\ r.kind = "object" /\ r.data.play = "" /\ r.data.msg = <<>>
  \/ MessageResp(r) /\ ClassifyAnyCase(r.data.msg) = "UNKNOWN"

(* C5: once an endpoint answers with a message classified Private or       *)
(* NotFound (and no play-URL), that answer is the last of the item: no     *)
(* later endpoint, candidate or retrieval request is issued, and the item  *)
(* ends with the Private, resp. NotFound, failure reason.                  *)
TerminalClassificationStopsChain ==
  \A k \in 1..Len(resps) :
    (MessageResp(resps[k]) /\ ClassifyAnyCase(resps[k].data.msg) # "UNKNOWN") =>
      /\ k = Len(resps)
      /\ \A e \in RequestsOf(cur) :
           /\ log[e].kind \notin {"head", "get"}
           /\ log[e].kind = "endpoint" => log[e].n <= resps[k].n
      /\ pc \in {"awaitResult", "exited"}
      /\ ~ret.success
      /\ ret.error =
           IF ClassifyAnyCase(resps[k].data.msg) = "PRIVATE"
           THEN <<"This video is private or friends-only and cannot be downloaded">>
           ELSE <<"Video not found. It may have been deleted or the URL is incorrect">>

TitleOf(data) ==
  IF data.title.t = "string" /\ data.title.v # <<>> THEN data.title.v
  ELSE <<"t","i","k","t","o","k","_","v","i","d","e","o">>

(* C6: an endpoint that abstains is followed by a request to the next      *)
(* endpoint in order; the first endpoint whose payload has a play-URL      *)
(* ends the chain: no later endpoint and no fallback candidate is          *)
(* requested, and the media URL and title used for the retrieval are the   *)
(* ones of that payload (the placeholder title when it has none).          *)
FirstResolvedWins ==
  \A k \in 1..Len(resps) :
    /\ (AbstainResp(resps[k]) /\ resps[k].n < NumEndpoints) =>
         \E e \in RequestsOf(cur) :
           log[e].kind = "endpoint" /\ log[e].n = resps[k].n + 1
    /\ ResolvedResp(resps[k]) =>
         /\ \A j \in 1..(k - 1) : ~ResolvedResp(resps[j])
         /\ \A e \in RequestsOf(cur) :
              /\ log[e].kind # "head"
              /\ log[e].kind = "endpoint" => log[e].n <= resps[k].n
         /\ resps[k].data.title.t # "number" =>
              /\ \E e \in RequestsOf(cur) : log[e].kind = "get"
              /\ loc.videoUrl = resps[k].data.play
              /\ loc.title = Str(TitleOf(resps[k].data))
              /\ ret.success => ret.title = TitleOf(resps[k].data)

SecondEndpointResolves ==
  /\ entry = "service" /\ pc = "awaitResult" /\ ret.success
  /\ ret.title = TShort
  /\ \E k \in 1..Len(resps) : ResolvedResp(resps[k]) /\ resps[k].n = 2
  /\ \E j \in 1..Len(resps) : AbstainResp(resps[j]) /\ resps[j].n = 1

NetworkFailure ==
  {<<"Network connectivity issues detected">>,
   <<"Network connectivity issues detected. Please check your internet connection.">>}

(* C7: when the connectivity probe is rejected or answers non-2xx, the     *)
(* item ends at once with the network failure, and the probe stays the     *)
(* only request ever issued for that item.                                 *)
ProbeFailureAborts ==
  /\ (/\ resps # <<>> /\ resps[1].stage = "probe"
      /\ ~(resps[1].kind = "response" /\ Is2xx(resps[1].status))) =>
       /\ Len(resps) = 1
       /\ pc \in {"awaitResult", "exited"}
       /\ ~ret.success /\ ret.error \in NetworkFailure
       /\ \A e \in RequestsOf(cur) : log[e].kind = "probe"
  /\ \A i \in 1..Len(results) :
       results[i].error \in NetworkFailure =>
         /\ ~results[i].success
         /\ \A e \in RequestsOf(i) : log[e].kind = "probe"

ProbeFailureRecorded ==
  /\ entry = "service" /\ Len(results) = 2
  /\ results[1].error \in NetworkFailure
  /\ Cardinality(RequestsOf(1)) = 1
  /\ pc = "responded"

(* C8: a non-2xx answer to the retrieval GET settles the item as           *)
(* success:false with the status code in the error message, and no write   *)
(* stream is opened for the item.                                          *)
RetrievalStatusReported ==
  entry = "service" =>
    \A k \in 1..Len(resps) :
      (resps[k].stage = "get" /\ resps[k].kind = "response"
       /\ ~Is2xx(resps[k].status)) =>
        /\ pc = "awaitResult" /\ ~ret.success
        /\ \E t \in 1..Len(ret.error) : ret.error[t] = ToString(resps[k].status)
        /\ \A f \in 1..Len(files) : files[f].item # cur

Retrieval404 ==
  /\ entry = "service" /\ pc = "awaitResult" /\ resps # <<>>
  /\ LastResp.stage = "get" /\ LastResp.status = 404
  /\ ret.error = <<"Video download failed: ", "404", " ", "Not Found">>
  /\ files # <<>>

(* C9: the classification of a provider message does not depend on the    *)
(* letter case of the message.                                             *)
ClassifierIgnoresCase ==
  (entry = "fn" /\ fnIn.op = "classify" /\ fnOut.done) =>
    fnOut.class = ClassifyAnyCase(fnIn.msg)

Strip(title) == SelectSeq(title, LAMBDA c : c \in NameChar)

(* C10, as stated: the file name is the title with the characters outside  *)
(* [A-Za-z0-9_-] removed, cut to 50 characters, then "_<id>.mp4".          *)
DescriptorStripsCharacters ==
  (entry = "fn" /\ fnIn.op = "derive" /\ fnOut.done) =>
    /\ fnOut.name = Substring0(Strip(fnIn.title), TitleLimit) \o <<"_">>
                      \o videoId(fnIn.url) \o Mp4
    /\ (fnIn.title = THello /\ videoId(fnIn.url) = <<"1","2","3">>) =>
         fnOut.name = <<"H","e","l","l","o","_","W","o","r","l","d","_",
                        "1","2","3",".","m","p","4">>

(* C10, amended: every character outside [A-Za-z0-9_-] is replaced by "_"  *)
(* (none is removed), the result is cut to 50 characters and followed by   *)
(* "_<id>.mp4"; the sanitized part has at most 50 characters, all of them  *)
(* in [A-Za-z0-9_-]; "Hello! World??" with id 123 gives                    *)
(* "Hello__World___123.mp4".                                               *)
DescriptorReplacesCharacters ==
  (entry = "fn" /\ fnIn.op = "derive" /\ fnOut.done) =>
    /\ Len(fnOut.text) <= 50
    /\ Len(fnOut.text) = IF Len(fnIn.title) < 50 THEN Len(fnIn.title) ELSE 50
    /\ \A i \in 1..Len(fnOut.text) :
         /\ fnOut.text[i] \in NameChar
         /\ fnOut.text[i] = IF fnIn.title[i] \in NameChar THEN fnIn.title[i] ELSE "_"
    /\ fnOut.name = fnOut.text \o <<"_">> \o videoId(fnIn.url) \o <<".","m","p","4">>
    /\ fnIn.url \in {UrlWithId, Trim(UrlWithId)} => videoId(fnIn.url) = <<"1","2","3">>
    /\ (fnIn.title = THello /\ videoId(fnIn.url) = <<"1","2","3">>) =>
         fnOut.name = <<"H","e","l","l","o","_","_","W","o","r","l","d","_","_","_",
                        "1","2","3",".","m","p","4">>

LongTitleReplacedAndCut ==
  /\ entry = "fn" /\ fnIn.op = "derive" /\ fnOut.done
  /\ Len(fnIn.title) > TitleLimit
  /\ \E i \in 1..TitleLimit : fnIn.title[i] \notin NameChar
  /\ \E i \in 1..TitleLimit : fnIn.title[i] \in NameChar
  /\ Len(fnOut.text) = TitleLimit

IsDownload ==
  entry = "service" /\ req.method = "POST" /\ req.path = "/api/download"
NoUsableUrls ==
  req.body.kind = "object" /\ (req.body.urls.t # "array" \/ req.body.urls.v = <<>>)

(* C11: POST /api/download is answered 400 with an error when urls is     *)
(* missing, not a list or empty, or when the download directory cannot be  *)
(* created, and then no item pipeline was started; 200 with the results    *)
(* whenever the loop ran to its end, even if every item failed; 500 with   *)
(* an error exactly when an exception reached the handler's catch block    *)
(* (unparsable or null body, an element of urls that is not a string).     *)
ResponseStatusByCase ==
  (IsDownload /\ pc = "responded") =>
    /\ Len(responses) = 1
    /\ responses[1].status \in {200, 400, 500}
    /\ (NoUsableUrls \/ dir = "missing") =>
         /\ responses[1].status = 400 /\ responses[1].kind = "error"
         /\ log = <<>> /\ results = <<>> /\ files = <<>>
    /\ responses[1].status = 400 => (NoUsableUrls \/ dir = "missing")
    /\ (IsBatch /\ Urls # <<>> /\ AllStrings /\ dir = "exists") =>
         /\ responses[1].status = 200 /\ responses[1].kind = "results"
         /\ Len(responses[1].results) = Len(Urls)
    /\ responses[1].status = 200 => (IsBatch /\ Urls # <<>> /\ AllStrings)
    /\ responses[1].status = 500 <=>
         \/ req.body.kind \in {"malformed", "null"}
         \/ IsBatch /\ dir = "exists" /\ ~AllStrings
    /\ responses[1].status # 200 => responses[1].kind = "error"

EveryItemFailedYet200 ==
  /\ IsDownload /\ pc = "responded"
  /\ responses[1].status = 200
  /\ Len(responses[1].results) = 2
  /\ \A i \in 1..2 : ~responses[1].results[i].success
  /\ log # <<>>

\* item i went through the whole chain and through the fallback prober:
\* every endpoint was requested, and every candidate was probed unless the
\* url carries no numeric id
LoggedFor(i, kind, n) == \E k \in 1..Len(log) : log[k] = [item |-> i, kind |-> kind, n |-> n]
ChainAndFallbackExhausted(i, url) ==
  /\ \A n \in 1..NumEndpoints : LoggedFor(i, "endpoint", n)
  /\ \/ MatchVideoId(url) = <<>>
     \/ \A n \in 1..NumCandidates : LoggedFor(i, "head", n)

(* C12: an item is reported with the generic all-methods-failed reason     *)
(* only after every endpoint of the chain was requested and the fallback   *)
(* prober probed all its candidates (or found no numeric id in the url),   *)
(* in the service as in direct invocation.                                 *)
UnresolvedOnlyAfterFallback ==
  /\ IsBatch =>
       \A i \in 1..Len(results) :
         results[i].error = <<"Failed to fetch video data from all APIs">> =>
           ChainAndFallbackExhausted(i, results[i].url)
  /\ (entry = "direct" /\ pc = "exited") =>
       (ret.error = <<"All API methods failed. The video might be private, deleted, or the APIs are down.">> =>
          ChainAndFallbackExhausted(1, req.body.urls.v))

(* C13: for the same source url and the same answers of the probe, the     *)
(* provider endpoints and the candidate probes, the service pipeline and   *)
(* the direct invocation reach the same resolution outcome (with the same  *)
(* media url and title when Resolved) and issue the same requests in the   *)
(* same order.                                                             *)
EntryPointsResolveAlike ==
  (entry = "pair" /\ fnOut.srv # NotRun /\ fnOut.idx # NotRun) =>
    fnOut.srv = fnOut.idx

\* the requests of items whose outcome is not in results yet, and the
\* responses received by the item in the pipeline
Unrecorded == {k \in 1..Len(log) : log[k].item > Len(results)}
Answered == {k \in 1..Len(resps) : resps[k].stage \in {"probe", "endpoint", "get"}}

(* C14: within one batch the items are processed one after the other: no   *)
(* request of item i+1 is issued before the outcome of item i is in the    *)
(* results, the requests are logged in item order, and at most one request *)
(* is outstanding at any time, which belongs to the one item in the        *)
(* pipeline.                                                               *)
OneItemAtATime ==
  IsBatch =>
    /\ \A k \in 1..Len(log) : log[k].item <= Len(results) + 1
    /\ \A k \in 1..(Len(log) - 1) : log[k].item <= log[k + 1].item
    /\ \A k \in Unrecorded : log[k].item = cur
    /\ Cardinality(Unrecorded) - Cardinality(Answered) \in {0, 1}
    /\ pc \in {"probe", "chainFetch", "retrieve"} <=>
         Cardinality(Unrecorded) - Cardinality(Answered) = 1

SecondItemInFlight ==
  /\ IsBatch /\ pc = "chainFetch" /\ cur = 2
  /\ Len(results) = 1 /\ results[1].success
  /\ \E k \in 1..Len(log) : log[k].item = 1 /\ log[k].kind = "get"
  /\ log[Len(log)] = [item |-> 2, kind |-> "endpoint", n |-> 2]

\* how many times the request (kind, n) was issued for item i
TimesSent(i, kind, n) ==
  Cardinality({k \in 1..Len(log) :
                 log[k].item = i /\ log[k].kind = kind /\ log[k].n = n})

(* C15: nothing is retried inside one item's pipeline: for each item the   *)
(* probe is requested at most once, each provider endpoint at most once,   *)
(* each fallback candidate at most once and the media url at most once,    *)
(* whatever was answered; no other request is ever made.                   *)
NoRetry ==
  entry \in {"service", "direct"} =>
    /\ \A k \in 1..Len(log) :
         /\ TimesSent(log[k].item, log[k].kind, log[k].n) = 1
         /\ \/ log[k].kind \in {"probe", "get"} /\ log[k].n = 1
            \/ log[k].kind = "endpoint" /\ log[k].n \in 1..NumEndpoints
            \/ log[k].kind = "head" /\ log[k].n \in 1..NumCandidates /\ entry = "direct"
    /\ \A i \in 1..(Len(results) + 1) :
         TimesSent(i, "probe", 1) + TimesSent(i, "get", 1) <= 2

AllFailedAfterOnePass ==
  /\ IsBatch /\ pc = "awaitResult" /\ cur = 1
  /\ ret.error = <<"Failed to fetch video data from all APIs">>
  /\ \A k \in 1..Len(resps) : resps[k].stage = "endpoint" => resps[k].kind = "throw"
  /\ log = <<[item |-> 1, kind |-> "probe", n |-> 1],
             [item |-> 1, kind |-> "endpoint", n |-> 1],
             [item |-> 1, kind |-> "endpoint", n |-> 2]>>

\* res is a prefix of the entries a request with these urls is answered with
OwnPrefix(r, res) ==
  /\ Len(res) <= Len(r.body.urls.v)
  /\ \A i \in 1..Len(res) :
       /\ res[i].url = Trim(r.body.urls.v[i].v)
       /\ ~Includes(r.body.urls.v[i].v, <<"t","i","k","t","o","k",".","c","o","m">>) =>
            res[i].error = <<"Invalid TikTok URL">>
\* the closure of the running invocation, field by field
Running ==
  [req |-> req, pc |-> pc, cur |-> cur, results |-> results, ret |-> ret,
   loc |-> loc, log |-> log, resps |-> resps, responses |-> responses]

(* C16: with two batch requests interleaving at their awaits, each         *)
(* request's results list holds entries for its own urls only, in its own  *)
(* input order, and is complete when it is sent; a step of one request     *)
(* leaves everything the other request owns untouched and only appends to  *)
(* its own results.                                                        *)
ResultsIsolated ==
  /\ [](other # NoContext =>
          /\ OwnPrefix(req, results)
          /\ OwnPrefix(other.req, other.results)
          /\ pc = "responded" =>
               /\ Len(responses) = 1
               /\ \/ /\ responses[1].status = 200
                     /\ responses[1].results = results
                     /\ Len(results) = Len(req.body.urls.v)
                  \/ /\ responses[1].status = 400
                     /\ results = <<>>)
  /\ [][other # NoContext =>
          \/ other' = other
               /\ req' = req
               /\ Len(results') >= Len(results)
               /\ SubSeq(results', 1, Len(results)) = results
          \/ other' = Running /\ Running' = other]_vars

BothRepliedOwnResults ==
  /\ other # NoContext
  /\ pc = "responded" /\ other.pc = "responded"
  /\ req # other.req
  /\ Len(results) = 2 /\ Len(other.results) = 2
  /\ \E i \in 1..2 : results[i].success
  /\ \E i \in 1..2 : other.results[i].success
  /\ Len(files) = 2 /\ files[1].path = files[2].path

\* the answers of provider endpoints received so far by the direct invocation
EndpointAnswered(n) ==
  \E j \in 1..Len(resps) :
    /\ resps[j].n = n
    /\ \/ resps[j].stage = "endpoint" /\ ~(resps[j].kind = "response" /\ Is2xx(resps[j].status))
       \/ resps[j].stage = "json"
SomeEndpointResolved == \E j \in 1..Len(resps) : ResolvedResp(resps[j])

(* C17: in direct invocation a candidate url is probed with HEAD only      *)
(* after every provider endpoint was requested and has answered without a  *)
(* play url; when some endpoint returned one, no candidate is ever probed. *)
FallbackOnlyAfterChain ==
  entry = "direct" =>
    /\ \A k \in 1..Len(log) :
         log[k].kind = "head" =>
           /\ \A n \in 1..NumEndpoints :
                /\ \E j \in 1..(k - 1) : log[j].kind = "endpoint" /\ log[j].n = n
                /\ EndpointAnswered(n)
           /\ ~SomeEndpointResolved
    /\ SomeEndpointResolved => \A k \in 1..Len(log) : log[k].kind # "head"

FirstCandidateProbed ==
  /\ entry = "direct" /\ pc = "idxHead"
  /\ log = <<[item |-> 1, kind |-> "probe", n |-> 1],
             [item |-> 1, kind |-> "endpoint", n |-> 1],
             [item |-> 1, kind |-> "endpoint", n |-> 2],
             [item |-> 1, kind |-> "head", n |-> 1]>>
  /\ \E j \in 1..Len(resps) : resps[j].stage = "json" /\ resps[j].data.msg # <<>>

\* the HEAD answers the direct invocation received, in order
HeadResps == SelectSeq(resps, LAMBDA r : r.stage = "head")
HeadsSent == SelectSeq(log, LAMBDA q : q.kind = "head")
\* a candidate answering 2xx with a video content-type
VideoAnswer(r) ==
  /\ r.kind = "response" /\ Is2xx(r.status)
  /\ Includes(r.data.msg, <<"v","i","d","e","o">>)
GaveUp ==
  /\ pc = "exited"
  /\ ret.error = <<"All API methods failed. The video might be private, deleted, or the APIs are down.">>
ChainExhausted ==
  /\ \A n \in 1..NumEndpoints : EndpointAnswered(n)
  /\ ~SomeEndpointResolved

(* C18: the fallback prober probes its candidates one after the other in   *)
(* list order; the first one answering 2xx with a video content-type is     *)
(* taken as the media url with title "tiktok_<id>" and no later candidate   *)
(* is probed; a candidate that throws, answers non-2xx or has another (or   *)
(* no) content-type is skipped; without a numeric id in the url nothing is  *)
(* probed; when nothing is probed or every candidate is skipped the item    *)
(* ends with the all-methods-failed reason.                                 *)
CandidatesInOrderFirstWins ==
  entry = "direct" =>
    /\ \A k \in 1..Len(HeadsSent) : HeadsSent[k].n = k
    /\ Len(HeadsSent) <= NumCandidates
    /\ Len(HeadResps) \in {Len(HeadsSent), Len(HeadsSent) - 1}
    /\ \A k \in 1..Len(HeadResps) :
         IF VideoAnswer(HeadResps[k])
         THEN /\ Len(HeadsSent) = k
              /\ loc.title = Str(<<"t","i","k","t","o","k","_">> \o <<"1","2","3">>)
              /\ loc.videoUrl = (IF k = 1 THEN "https://v16-webapp/" ELSE "https://v19-webapp/")
              /\ log[Len(log)] = [item |-> 1, kind |-> "get", n |-> 1]
         ELSE IF k < NumCandidates
         THEN Len(HeadsSent) > k
         ELSE GaveUp /\ log[Len(log)].kind = "head"
    /\ req.body.urls.v = UrlNoId =>
         /\ HeadsSent = <<>>
         /\ ChainExhausted => GaveUp
    /\ HeadsSent # <<>> => req.body.urls.v = UrlWithId

SecondCandidateTaken ==
  /\ entry = "direct" /\ pc = "idxRetrieve"
  /\ Len(HeadResps) = 2
  /\ HeadResps[1].kind = "response" /\ HeadResps[1].status = 200
  /\ ~VideoAnswer(HeadResps[1])
  /\ VideoAnswer(HeadResps[2])
  /\ loc.videoUrl = "https://v19-webapp/"

(* C19: every request the service accepts is answered exactly once: never *)
(* a second response, none before the handler path is through, and, when   *)
(* every pending network call settles, eventually one; the batch loop      *)
(* issues at most (chain length + probe + retrieval) requests per url.     *)
AnsweredExactlyOnce ==
  /\ [](entry = "service" =>
          /\ Len(responses) <= 1
          /\ pc = "responded" <=> Len(responses) = 1)
  /\ [](IsBatch => Len(log) <= Len(Urls) * (NumEndpoints + 2))
  /\ [][entry = "service" /\ responses # <<>> => responses' = responses]_vars
  /\ (entry = "service") ~> (pc = "responded" /\ Len(responses) = 1)

LongestBatchAnswered ==
  /\ IsBatch /\ pc = "responded"
  /\ Len(Urls) = 2 /\ Len(log) = 2 * (NumEndpoints + 2)
  /\ Len(responses) = 1 /\ responses[1].status = 200
  /\ Len(files) = 2

\* the payload the service chain parsed last, and what the item ended with
PrivateMarked(msg) ==
  \/ Includes(msg, <<"p","r","i","v","a","t","e">>)
  \/ Includes(msg, <<"f","r","i","e","n","d","s">>)
NotFoundMarked(msg) ==
  \/ Includes(msg, <<"n","o","t"," ","f","o","u","n","d">>)
  \/ Includes(msg, <<"d","e","l","e","t","e","d">>)
JustParsed ==
  /\ entry = "service" /\ resps # <<>>
  /\ LastResp.stage = "json" /\ LastResp.kind = "object"

(* C20: inside one payload of the service chain the play url comes first:  *)
(* a payload with a play url is taken as Resolved (the pipeline goes on to *)
(* the file name and the retrieval, never to a Private or NotFound         *)
(* failure) even when its message matches a marker; and a message without  *)
(* play url that matches both a Private and a NotFound marker ends the     *)
(* item as Private, never as NotFound.                                     *)
PlayUrlThenPrivateFirst ==
  JustParsed =>
    /\ LastResp.data.play # "" =>
         /\ ret.error \notin
              {<<"This video is private or friends-only and cannot be downloaded">>,
               <<"Video not found. It may have been deleted or the URL is incorrect">>,
               <<"Failed to fetch video data from all APIs">>}
         /\ LastResp.data.title.t = "string" =>
              /\ pc = "retrieve"
              /\ loc.videoUrl = LastResp.data.play
              /\ log[Len(log)] = [item |-> cur, kind |-> "get", n |-> 1]
    /\ (/\ LastResp.data.play = ""
        /\ PrivateMarked(LastResp.data.msg)
        /\ NotFoundMarked(LastResp.data.msg)) =>
         /\ pc = "awaitResult"
         /\ ret.error = <<"This video is private or friends-only and cannot be downloaded">>

PlayUrlBesidePrivateMessage ==
  /\ JustParsed /\ pc = "retrieve"
  /\ LastResp.data.play # ""
  /\ PrivateMarked(LastResp.data.msg)
  /\ loc.videoUrl = LastResp.data.play

====
